---- MODULE Spec2Model ----
(***************************************************************************)
(* A model of LMArenaApiBridge.js (LMArena API Bridge v2.5): the userscript *)
(* that bridges a local coordinator (WebSocket ws://localhost:5102/ws) to   *)
(* the page's evaluation endpoint.                                          *)
(*                                                                          *)
(* Text is modelled as a sequence of one-character strings.  The page title *)
(* (document.title) is decoration that no control decision of the bridge    *)
(* reads except to redecorate the title itself; it is left out.             *)
(***************************************************************************)
EXTENDS Naturals, Sequences, FiniteSets, TLC

\* ------------------------------------------------------------------ bounds

\* Longest chunk the demultiplexer is applied to in FilterSpec.
MaxChunkLen == 6

\* Request frames the coordinator sends in one run.
MaxRequests == 2

\* Chunks one response stream delivers before it ends or fails.
MaxChunks == 2

\* activate_id_capture commands the coordinator sends in one run.
MaxActivations == 2

\* ------------------------------------------------------------ text helpers

NL == "\n"

\* The characters chunks are built from in FilterSpec: both participant tags,
\* both record-type markers, the colon and the newline; a payload is made of
\* the same characters.
ChunkAlphabet == {"a", "b", "0", "d", ":", NL}

\* A value of a JavaScript variable that holds either null or a string.
Null == [null |-> TRUE, text |-> <<>>]

Text(s) == [null |-> FALSE, text |-> s]

\* ------------------------------------------------- Stream Demultiplexer

\* new RegExp(`${targetPosition}[0d]:[^\\n]*`, 'g') matched at index i of the
\* chunk: the target, then 0 or d, then a colon.  The pattern is not anchored
\* to the start of a line.
PatternStartsAt(chunk, targetPosition, i) ==
    /\ i + 2 <= Len(chunk)
    /\ chunk[i] = targetPosition
    /\ chunk[i + 1] \in {"0", "d"}
    /\ chunk[i + 2] = ":"

\* [^\n]* is greedy: the index of the last character before the next newline
\* at or after index i (i - 1 when chunk[i] is a newline or i is past the end).
RECURSIVE RestOfLine(_, _)
RestOfLine(chunk, i) ==
    IF i > Len(chunk) \/ chunk[i] = NL
    THEN i - 1
    ELSE RestOfLine(chunk, i + 1)

\* chunk.match(pattern) with the g flag: every leftmost non-overlapping match,
\* scanning from index i.
RECURSIVE MatchAll(_, _, _)
MatchAll(chunk, targetPosition, i) ==
    IF i > Len(chunk)
    THEN <<>>
    ELSE IF PatternStartsAt(chunk, targetPosition, i)
         THEN LET e == RestOfLine(chunk, i + 3)
              IN  <<SubSeq(chunk, i, e)>> \o MatchAll(chunk, targetPosition, e + 1)
         ELSE MatchAll(chunk, targetPosition, i + 1)

\* matches.join('\n')
RECURSIVE Join(_)
Join(matches) ==
    IF Len(matches) = 0 THEN <<>>
    ELSE IF Len(matches) = 1 THEN matches[1]
    ELSE matches[1] \o <<NL>> \o Join(Tail(matches))

filterStreamByTarget(chunk, targetPosition) ==
    LET matches == MatchAll(chunk, targetPosition, 1)
    IN  IF Len(matches) > 0
        THEN Text(Join(matches) \o <<NL>>)
        ELSE Null

\* ------------------------------------------------------------------ state

VARIABLES
    readyState,           \* socket.readyState of the socket the variable `socket` holds
    timers,               \* pending setTimeout(connect, 5000) callbacks
    requests,             \* one executeFetchAndStreamBack activation per request_id
    isApiBridgeRequest,   \* window.isApiBridgeRequest
    emitted,              \* history: the data of every sendToServer call, by its requestId
    wire,                 \* history: the data of every message handed to socket.send, by its request_id
    isCaptureModeActive,  \* the capture-mode switch
    activations,          \* history: activate_id_capture commands handled
    deliveries,           \* fetch calls to http://127.0.0.1:5103/update, with their outcome
    observed,             \* history: the last call window.fetch (the wrapper) handled, if any
    handled,              \* history: the last frame socket.onmessage handled, if any
    fChunk, fTarget, fOut, \* FilterSpec: a chunk, a target and the demultiplexer's result
    fSplit, fHead, fTail  \* FilterSpec: the chunk read in two parts, the first of
                          \* fSplit characters, and the demultiplexer's result for each

connVars == <<readyState, timers>>
execVars == <<requests, isApiBridgeRequest>>
outVars == <<emitted, wire>>
capVars == <<isCaptureModeActive, activations, deliveries, observed>>
inVars == <<handled>>
filterVars == <<fChunk, fTarget, fOut, fSplit, fHead, fTail>>
vars == <<connVars, execVars, outVars, capVars, inVars, filterVars>>

\* --------------------------------------------------- frames and payloads

\* The three shapes of OutboundFrame.data.
TextData(s) == [kind |-> "text", text |-> s, error |-> ""]

Done == [kind |-> "done", text |-> <<>>, error |-> ""]

ErrorData(message) == [kind |-> "error", text |-> <<>>, error |-> message]

\* Two message templates.  participantPosition "" stands for an absent one;
\* attachments is an array or, with isArray FALSE, anything else.
TemplateUser ==
    [role |-> "user", content |-> "q",
     attachments |-> [isArray |-> FALSE, items |-> <<>>],
     participantPosition |-> ""]

TemplateAssistant ==
    [role |-> "assistant", content |-> "r",
     attachments |-> [isArray |-> TRUE, items |-> <<"img">>],
     participantPosition |-> "a"]

\* payload.message_templates: missing, or a list.
NoTemplates == [missing |-> TRUE, list |-> <<>>]

Templates(l) == [missing |-> FALSE, list |-> l]

\* The payloads the coordinator sends.  session_id "" and battle_target ""
\* stand for a missing or empty (falsy) value.
Payloads ==
    { [session_id |-> "", message_templates |-> Templates(<<TemplateUser>>), battle_target |-> "a"],
      [session_id |-> "s1", message_templates |-> NoTemplates, battle_target |-> ""],
      [session_id |-> "s1", message_templates |-> Templates(<<>>), battle_target |-> "b"],
      [session_id |-> "", message_templates |-> Templates(<<>>), battle_target |-> ""],
      [session_id |-> "s1", message_templates |-> Templates(<<TemplateUser>>), battle_target |-> ""],
      [session_id |-> "s1", message_templates |-> Templates(<<TemplateUser, TemplateAssistant>>),
       battle_target |-> "a"] }

\* The chunks a response stream delivers: records of both participants, and a
\* record of participant a only.
StreamChunks ==
    { <<"a", "0", ":", "x", NL, "b", "0", ":", "y", NL>>,
      <<"a", "d", ":", "x", NL>> }

\* An activation of executeFetchAndStreamBack that has not been started.
NoPayload == [session_id |-> "", message_templates |-> NoTemplates, battle_target |-> ""]

NoBody ==
    [id |-> "", mode |-> "", userMessageId |-> 0, modelAMessageId |-> 0,
     modelBMessageId |-> 0, messages |-> <<>>, modality |-> ""]

\* socketGone: the WebSocket the request frame arrived on has been closed, so
\* that `socket` holds another one (or none that is open).
NoRequest ==
    [pc |-> "none", payload |-> NoPayload, chunks |-> <<>>, uuids |-> 0,
     fetches |-> 0, body |-> NoBody, socketGone |-> FALSE]

RequestIds == 1 .. MaxRequests

\* The activations after the close event of the current socket: for those
\* that still await something, the socket their frame arrived on is gone.
AfterSocketClosed(reqs) ==
    [r \in RequestIds |->
        IF reqs[r].pc \in {"fetching", "errorText", "reading"}
        THEN [reqs[r] EXCEPT !.socketGone = TRUE]
        ELSE reqs[r]]

\* ------------------------------------------------- Connection Supervisor

\* WebSocket.close(): starts the closing handshake of a socket that is not
\* closing or closed already, and is a no-op otherwise.
socketClose(rs) == IF rs \in {"CLOSING", "CLOSED"} THEN rs ELSE "CLOSING"

\* socket.onerror: socket.close().
onerror(rs) == socketClose(rs)

\* socket.onclose that schedules connect() twice.
oncloseSchedulesTwice(t) == t + 2

\* socket.onclose that schedules nothing.
oncloseSchedulesNothing(t) == t

\* socket.onclose: setTimeout(connect, 5000); the pending timers afterwards.
onclose(t) == t + 1

\* connect(): socket = new WebSocket(SERVER_URL).
connect == readyState' = "CONNECTING"

\* The bridge after the script has run: connect() has been called.
BridgeInit ==
    /\ readyState = "CONNECTING"
    /\ timers = 0
    /\ requests = [r \in RequestIds |-> NoRequest]
    /\ isApiBridgeRequest = FALSE
    /\ emitted = [r \in RequestIds |-> <<>>]
    /\ wire = [r \in RequestIds |-> <<>>]
    /\ isCaptureModeActive = FALSE
    /\ activations = 0
    /\ deliveries = <<>>
    /\ observed = <<>>
    /\ handled = <<>>

Init ==
    /\ BridgeInit
    /\ fChunk = <<>>
    /\ fTarget = "b"
    /\ fOut = Null
    /\ fSplit = 0
    /\ fHead = Null
    /\ fTail = Null

\* socket.onopen: the connection is established.
OnOpen ==
    /\ readyState = "CONNECTING"
    /\ readyState' = "OPEN"
    /\ UNCHANGED <<timers, execVars, outVars, capVars, inVars, filterVars>>

\* The coordinator starts the closing handshake: the browser sets CLOSING.
ClosingHandshake ==
    /\ readyState = "OPEN"
    /\ readyState' = "CLOSING"
    /\ UNCHANGED <<timers, execVars, outVars, capVars, inVars, filterVars>>

\* The connection fails (refused while connecting, or lost): the browser sets
\* CLOSED, fires error (socket.onerror) and then close (socket.onclose).
OnErrorThenClose ==
    /\ readyState \in {"CONNECTING", "OPEN", "CLOSING"}
    /\ readyState' = onerror("CLOSED")
    /\ timers' = onclose(timers)
    /\ requests' = AfterSocketClosed(requests)
    /\ UNCHANGED <<isApiBridgeRequest, outVars, capVars, inVars, filterVars>>

\* The connection is closed cleanly: the browser sets CLOSED and fires close.
OnClose ==
    /\ readyState \in {"OPEN", "CLOSING"}
    /\ readyState' = "CLOSED"
    /\ timers' = onclose(timers)
    /\ requests' = AfterSocketClosed(requests)
    /\ UNCHANGED <<isApiBridgeRequest, outVars, capVars, inVars, filterVars>>

\* A reconnect timer fires: connect().
TimerFires ==
    /\ timers > 0
    /\ timers' = timers - 1
    /\ connect
    /\ UNCHANGED <<execVars, outVars, capVars, inVars, filterVars>>

\* ---------------------------------------------------------- sendToServer

\* sendToServer stamping the message with the id of the latest request frame
\* instead of its requestId argument.
sendToServerLatestId(w, rs, requestId, data) ==
    LET received == {r \in RequestIds : requests[r].pc # "none"} \cup {requestId}
        latest == CHOOSE r \in received : \A q \in received : q <= r
    IN  IF rs = "OPEN"
        THEN [w EXCEPT ![latest] = Append(@, data)]
        ELSE w

\* sendToServer without the readyState check.
sendToServerUnchecked(w, rs, requestId, data) ==
    [w EXCEPT ![requestId] = Append(@, data)]

\* sendToServer(requestId, data) with socket.readyState rs.  The wire w is
\* what socket.send was handed, by the request_id of the message: the message
\* {request_id: requestId, data: data} is sent when the socket is OPEN and is
\* dropped (an error is logged) otherwise.
sendToServer(w, rs, requestId, data) ==
    IF rs = "OPEN"
    THEN [w EXCEPT ![requestId] = Append(@, data)]
    ELSE w

\* The sendToServer calls of one synchronous section, in order.
RECURSIVE SendAll(_, _, _, _)
SendAll(w, rs, requestId, datas) ==
    IF Len(datas) = 0
    THEN w
    ELSE SendAll(sendToServer(w, rs, requestId, Head(datas)), rs, requestId, Tail(datas))

\* An activation whose requestId is r calls sendToServer(requestId, d) for
\* each d of datas.
Emit(r, datas) ==
    /\ wire' = SendAll(wire, readyState, r, datas)
    /\ emitted' = [emitted EXCEPT ![r] = @ \o datas]

\* --------------------------------------------- Session Capture Interceptor

IsHexChar(c) == c \in {"a", "b", "c", "d", "e", "f", "0", "1", "2", "3", "4",
                       "5", "6", "7", "8", "9", "-"}

\* A URL, as far as the interceptor's pattern reads it: the path shape and the
\* two path segments where the retry path carries its identifiers.
Url(path, first, second) == [path |-> path, first |-> first, second |-> second]

\* urlString.match(/\/nextjs-api\/stream\/retry-evaluation-session-message\/
\* ([a-f0-9-]+)\/messages\/([a-f0-9-]+)/): the first segment is all of
\* [a-f0-9-] and not empty, the second starts with such a character.
UrlMatches(url) ==
    /\ url.path = "retry-evaluation-session-message"
    /\ Len(url.first) > 0
    /\ \A i \in 1 .. Len(url.first) : IsHexChar(url.first[i])
    /\ Len(url.second) > 0
    /\ IsHexChar(url.second[1])

\* match[1]
CapturedSessionId(url) == url.first

\* Captures without the test of the origination flag.
CapturesFlaggedCalls(url, flag, mode) == UrlMatches(url) /\ mode

\* if (match && !window.isApiBridgeRequest && isCaptureModeActive)
Captures(url, flag, mode) == UrlMatches(url) /\ ~flag /\ mode

\* 'http://127.0.0.1:5103/update', the id updater's endpoint.
UpdateEndpoint == Url("update", <<>>, <<>>)

\* originalFetch.apply(this, args): the promise the page's own fetch returns
\* for these arguments.
originalFetch(args) == [promiseOf |-> args]

\* Call for a wrapper that returns the delivery's promise when it captures,
\* without forwarding the call itself.
CallSwallowedOnCapture(url, flag, caller) ==
    [url |-> url, caller |-> caller, flag |-> flag, armed |-> isCaptureModeActive,
     forwarded |-> IF Captures(url, flag, isCaptureModeActive)
                   THEN <<UpdateEndpoint>>
                   ELSE <<url>>,
     returned |-> IF Captures(url, flag, isCaptureModeActive)
                  THEN originalFetch(UpdateEndpoint)
                  ELSE originalFetch(url)]

\* What one call of the wrapper does with its argument, seen from outside: the
\* flag and the capture mode it read, the arguments originalFetch was called
\* with while it ran, in order, and what it returned.  On a capture the
\* delivery's fetch is a call of the wrapper too, which matches nothing and
\* forwards it, before the call itself is forwarded.
Call(url, flag, caller) ==
    [url |-> url, caller |-> caller, flag |-> flag, armed |-> isCaptureModeActive,
     forwarded |-> IF Captures(url, flag, isCaptureModeActive)
                   THEN <<UpdateEndpoint, url>>
                   ELSE <<url>>,
     returned |-> originalFetch(url)]

\* WrappedFetch that leaves the capture mode on when it captures.
WrappedFetchStaysArmed(url, flag, caller) ==
    /\ observed' = <<Call(url, flag, caller)>>
    /\ IF Captures(url, flag, isCaptureModeActive)
       THEN /\ deliveries' = Append(deliveries,
                                    [sessionId |-> CapturedSessionId(url), outcome |-> "pending"])
            /\ UNCHANGED <<isCaptureModeActive, activations>>
       ELSE UNCHANGED <<isCaptureModeActive, activations, deliveries>>

\* window.fetch, the wrapper, called by `caller` with this URL while
\* window.isApiBridgeRequest is `flag`: on a capture the mode is switched off
\* and one delivery to the id updater is started; originalFetch is called
\* in every case and its result returned.
WrappedFetch(url, flag, caller) ==
    /\ observed' = <<Call(url, flag, caller)>>
    /\ IF Captures(url, flag, isCaptureModeActive)
       THEN /\ isCaptureModeActive' = FALSE
            /\ deliveries' = Append(deliveries,
                                    [sessionId |-> CapturedSessionId(url), outcome |-> "pending"])
            /\ UNCHANGED activations
       ELSE UNCHANGED <<isCaptureModeActive, activations, deliveries>>

\* ------------------------------------------------------ Request Executor

\* Preflight without the check for an empty template list.
PreflightMissingOnly(payload) ==
    IF payload.session_id = ""
    THEN "session_id is empty"
    ELSE IF payload.message_templates.missing
         THEN "message list is empty"
         ELSE ""

\* The two pre-flight checks, in the order of the code: "" when both pass.
Preflight(payload) ==
    IF payload.session_id = ""
    THEN "session_id is empty"
    ELSE IF payload.message_templates.missing \/ Len(payload.message_templates.list) = 0
         THEN "message list is empty"
         ELSE ""

\* battle_target || 'b'
TargetPosition(payload) ==
    IF payload.battle_target = "" THEN "b" ELSE payload.battle_target

\* UuidCalls for an activation that generates no userMessageId of its own.
UuidCallsTwoSlots(payload) == 2 + Len(payload.message_templates.list)

\* generateUUIDv7() calls of one activation that passed the pre-flight checks:
\* userMessageId, modelAMessageId, modelBMessageId and one per template.
UuidCalls(payload) == 3 + Len(payload.message_templates.list)

\* The request body.  An identifier is modelled by its place in the order of
\* the activation's generateUUIDv7() calls.
BuildBody(payload) ==
    LET templates == payload.message_templates.list
    IN  [id |-> payload.session_id,
         mode |-> "battle",
         userMessageId |-> 1,
         modelAMessageId |-> 2,
         modelBMessageId |-> 3,
         messages |->
            [i \in 1 .. Len(templates) |->
                [id |-> 3 + i,
                 evaluationSessionId |-> payload.session_id,
                 role |-> templates[i].role,
                 parentMessageIds |-> <<>>,
                 content |-> templates[i].content,
                 experimental_attachments |->
                    IF templates[i].attachments.isArray
                    THEN templates[i].attachments.items
                    ELSE <<>>,
                 participantPosition |->
                    IF templates[i].participantPosition = ""
                    THEN "b"
                    ELSE templates[i].participantPosition]],
         modality |-> "chat"]

\* The activation after the synchronous part of executeFetchAndStreamBack: it
\* returned after a failed pre-flight check, or it awaits fetch.
Started(payload) ==
    IF Preflight(payload) # ""
    THEN [pc |-> "done", payload |-> payload, chunks |-> <<>>, uuids |-> 0,
          fetches |-> 0, body |-> NoBody, socketGone |-> FALSE]
    ELSE [pc |-> "fetching", payload |-> payload, chunks |-> <<>>,
          uuids |-> UuidCalls(payload), fetches |-> 1, body |-> BuildBody(payload),
          socketGone |-> FALSE]

\* The frames of the synchronous part.
StartFrames(payload) ==
    IF Preflight(payload) # ""
    THEN <<ErrorData(Preflight(payload)), Done>>
    ELSE <<>>

\* The request ids the coordinator has used.
Used == {r \in RequestIds : requests[r].pc # "none"}

\* The activations that await fetch, the error body or a stream read.
InFlight == {r \in RequestIds : requests[r].pc \in {"fetching", "errorText", "reading"}}

\* An inbound frame after JSON.parse.  command is missing or a string;
\* request_id 0 stands for a missing (falsy) one; payload is missing or one of
\* Payloads.
Message(command, request_id, payload) ==
    [command |-> command, request_id |-> request_id, payload |-> payload]

NoCommand == [missing |-> TRUE, value |-> ""]

Command(c) == [missing |-> FALSE, value |-> c]

\* if (message.command): the frame has a command that is not the empty string.
IsCommand(message) == ~message.command.missing /\ message.command.value # ""

NoPayloadField == [missing |-> TRUE, value |-> NoPayload]

PayloadField(payload) == [missing |-> FALSE, value |-> payload]

\* The request id the coordinator gives its next request: it numbers them in
\* order (0: none is left).
NextRequestId ==
    IF Used = RequestIds
    THEN 0
    ELSE CHOOSE r \in RequestIds \ Used : \A q \in RequestIds \ Used : r <= q

\* Frames without a command, with these payloads.
RequestFrames(payloads) ==
    {Message(NoCommand, r, p) :
        r \in {0} \cup RequestIds,
        p \in {NoPayloadField} \cup {PayloadField(q) : q \in payloads}}

\* socket.onmessage with a request frame {request_id, payload}: the message
\* has no command, both fields are there, executeFetchAndStreamBack runs to
\* its first await.
OnRequest(message) ==
    LET r == message.request_id
        payload == message.payload.value
    IN  /\ readyState = "OPEN"
        /\ ~IsCommand(message)
        /\ ~(message.request_id = 0 \/ message.payload.missing)
        /\ message.request_id = NextRequestId
        /\ requests' = [requests EXCEPT ![r] = Started(payload)]
        /\ Emit(r, StartFrames(payload))
        /\ IF Preflight(payload) = ""
           THEN /\ isApiBridgeRequest' = TRUE
                /\ WrappedFetch(Url("post-to-evaluation", payload.session_id, ""), TRUE, "executor")
           ELSE UNCHANGED <<isApiBridgeRequest, capVars>>
        /\ handled' = <<message>>
        /\ UNCHANGED <<connVars, filterVars>>

\* OnMalformed that answers a frame which has a request_id with an error frame.
OnMalformedAnswered(message) ==
    /\ readyState = "OPEN"
    /\ ~IsCommand(message)
    /\ message.request_id = 0 \/ message.payload.missing
    /\ message.request_id \in {0, NextRequestId}
    /\ handled' = <<message>>
    /\ IF message.request_id # 0
       THEN Emit(message.request_id, <<ErrorData("invalid message")>>)
       ELSE UNCHANGED outVars
    /\ UNCHANGED <<connVars, execVars, capVars, filterVars>>

\* socket.onmessage with a frame that has no command and lacks request_id or
\* payload: it is logged and dropped.
OnMalformed(message) ==
    /\ readyState = "OPEN"
    /\ ~IsCommand(message)
    /\ message.request_id = 0 \/ message.payload.missing
    /\ message.request_id \in {0, NextRequestId}
    /\ handled' = <<message>>
    /\ UNCHANGED <<connVars, execVars, outVars, capVars, filterVars>>

\* FetchRejects without the finally block.
FetchRejectsKeepsFlag(r) ==
    /\ requests[r].pc = "fetching"
    /\ requests' = [requests EXCEPT ![r].pc = "done"]
    /\ Emit(r, <<ErrorData("fetch failed")>>)
    /\ UNCHANGED <<isApiBridgeRequest, connVars, capVars, inVars, filterVars>>

\* await fetch(...) rejects: catch sends the error, finally resets the flag.
FetchRejects(r) ==
    /\ requests[r].pc = "fetching"
    /\ requests' = [requests EXCEPT ![r].pc = "done"]
    /\ Emit(r, <<ErrorData("fetch failed")>>)
    /\ isApiBridgeRequest' = FALSE
    /\ UNCHANGED <<connVars, capVars, inVars, filterVars>>

\* await fetch(...) resolves: with an ok status and a body the loop awaits the
\* first read; otherwise the activation awaits response.text().
FetchResolves(r, ok, hasBody) ==
    /\ requests[r].pc = "fetching"
    /\ requests' = [requests EXCEPT
                      ![r].pc = IF ~ok \/ ~hasBody THEN "errorText" ELSE "reading"]
    /\ UNCHANGED <<isApiBridgeRequest, connVars, outVars, capVars, inVars, filterVars>>

\* ErrorTextSettles with a [DONE] sent after the error.
ErrorTextSettlesThenDone(r, resolved) ==
    /\ requests[r].pc = "errorText"
    /\ requests' = [requests EXCEPT ![r].pc = "done"]
    /\ Emit(r, <<ErrorData(IF resolved THEN "bad response" ELSE "text failed"), Done>>)
    /\ isApiBridgeRequest' = FALSE
    /\ UNCHANGED <<connVars, capVars, inVars, filterVars>>

\* await response.text() settles: resolved, the code throws the status error;
\* rejected, the rejection is the error.  catch sends it, finally resets the flag.
ErrorTextSettles(r, resolved) ==
    /\ requests[r].pc = "errorText"
    /\ requests' = [requests EXCEPT ![r].pc = "done"]
    /\ Emit(r, <<ErrorData(IF resolved THEN "bad response" ELSE "text failed")>>)
    /\ isApiBridgeRequest' = FALSE
    /\ UNCHANGED <<connVars, capVars, inVars, filterVars>>

\* The frames of one turn of the read loop for a chunk.
ChunkFrames(payload, chunk) ==
    LET filteredChunk == filterStreamByTarget(chunk, TargetPosition(payload))
    IN  IF ~filteredChunk.null /\ Len(filteredChunk.text) > 0
        THEN <<TextData(filteredChunk.text)>>
        ELSE <<>>

\* await reader.read() resolves with a chunk: it is filtered and, when
\* something is left, sent; the loop awaits the next read.
ReadChunk(r, chunk) ==
    /\ requests[r].pc = "reading"
    /\ Len(requests[r].chunks) < MaxChunks
    /\ requests' = [requests EXCEPT ![r].chunks = Append(@, chunk)]
    /\ Emit(r, ChunkFrames(requests[r].payload, chunk))
    /\ UNCHANGED <<isApiBridgeRequest, connVars, capVars, inVars, filterVars>>

\* await reader.read() resolves with done: [DONE] is sent, finally resets the flag.
ReadDone(r) ==
    /\ requests[r].pc = "reading"
    /\ requests' = [requests EXCEPT ![r].pc = "done"]
    /\ Emit(r, <<Done>>)
    /\ isApiBridgeRequest' = FALSE
    /\ UNCHANGED <<connVars, capVars, inVars, filterVars>>

\* ReadRejects with a [DONE] sent after the error, as after a pre-flight failure.
ReadRejectsThenDone(r) ==
    /\ requests[r].pc = "reading"
    /\ requests' = [requests EXCEPT ![r].pc = "done"]
    /\ Emit(r, <<ErrorData("read failed"), Done>>)
    /\ isApiBridgeRequest' = FALSE
    /\ UNCHANGED <<connVars, capVars, inVars, filterVars>>

\* await reader.read() rejects: catch sends the error, finally resets the flag.
ReadRejects(r) ==
    /\ requests[r].pc = "reading"
    /\ requests' = [requests EXCEPT ![r].pc = "done"]
    /\ Emit(r, <<ErrorData("read failed")>>)
    /\ isApiBridgeRequest' = FALSE
    /\ UNCHANGED <<connVars, capVars, inVars, filterVars>>

\* ----------------------------------------------------- Command Dispatcher

\* location.reload(): the page and its script start again.  The activations in
\* flight and the pending deliveries of the old page are gone with it, its
\* timers are cancelled, its socket is closed, and the new script calls connect().
Reload ==
    /\ connect
    /\ timers' = 0
    /\ requests' = [r \in RequestIds |->
                      IF r \in InFlight
                      THEN [requests[r] EXCEPT !.pc = "unloaded"]
                      ELSE requests[r]]
    /\ isApiBridgeRequest' = FALSE
    /\ isCaptureModeActive' = FALSE
    /\ deliveries' = [i \in 1 .. Len(deliveries) |->
                        IF deliveries[i].outcome = "pending"
                        THEN [deliveries[i] EXCEPT !.outcome = "unloaded"]
                        ELSE deliveries[i]]
    /\ UNCHANGED <<activations, observed, outVars, filterVars>>

\* socket.onmessage with a frame that has a command: refresh and reconnect
\* reload the page.
OnReloadCommand(message) ==
    /\ readyState = "OPEN"
    /\ IsCommand(message)
    /\ message.command.value \in {"refresh", "reconnect"}
    /\ handled' = <<message>>
    /\ Reload

\* activate_id_capture switches the capture mode on.
OnActivateCapture(message) ==
    /\ readyState = "OPEN"
    /\ IsCommand(message)
    /\ message.command.value = "activate_id_capture"
    /\ activations < MaxActivations
    /\ isCaptureModeActive' = TRUE
    /\ activations' = activations + 1
    /\ handled' = <<message>>
    /\ UNCHANGED <<deliveries, observed, connVars, execVars, outVars, filterVars>>

\* send_page_source: sendPageSource() posts the page's markup through
\* window.fetch, the wrapper; the outcome is logged only.
OnSendPageSource(message) ==
    /\ readyState = "OPEN"
    /\ IsCommand(message)
    /\ message.command.value = "send_page_source"
    /\ WrappedFetch(Url("update_available_models", <<>>, <<>>), isApiBridgeRequest, "sendPageSource")
    /\ handled' = <<message>>
    /\ UNCHANGED <<connVars, execVars, outVars, filterVars>>

\* OnOtherCommand without the return that ends the handling of a command: a
\* frame that carries a request_id and a payload as well goes on to
\* executeFetchAndStreamBack.
OnOtherCommandFallsThrough(message) ==
    /\ readyState = "OPEN"
    /\ IsCommand(message)
    /\ message.command.value \notin {"refresh", "reconnect", "activate_id_capture", "send_page_source"}
    /\ handled' = <<message>>
    /\ IF message.request_id # 0 /\ message.request_id = NextRequestId /\ ~message.payload.missing
       THEN /\ requests' = [requests EXCEPT ![message.request_id] = Started(message.payload.value)]
            /\ Emit(message.request_id, StartFrames(message.payload.value))
            /\ IF Preflight(message.payload.value) = ""
               THEN /\ isApiBridgeRequest' = TRUE
                    /\ WrappedFetch(Url("post-to-evaluation", message.payload.value.session_id, ""),
                                    TRUE, "executor")
               ELSE UNCHANGED <<isApiBridgeRequest, capVars>>
            /\ UNCHANGED <<connVars, filterVars>>
       ELSE UNCHANGED <<connVars, execVars, outVars, capVars, filterVars>>

\* Any other command: nothing is done.
OnOtherCommand(message) ==
    /\ readyState = "OPEN"
    /\ IsCommand(message)
    /\ message.command.value \notin {"refresh", "reconnect", "activate_id_capture", "send_page_source"}
    /\ handled' = <<message>>
    /\ UNCHANGED <<connVars, execVars, outVars, capVars, filterVars>>

\* ------------------------------------------------------------- the page

\* The URLs the page's own code fetches: a retry call, a retry call whose
\* session segment is not of [a-f0-9-], one whose message segment is not, and
\* a call of another path.
PageUrls ==
    { Url("retry-evaluation-session-message", <<"a", "1">>, <<"f", "2">>),
      Url("retry-evaluation-session-message", <<"a", "X">>, <<"f", "2">>),
      Url("retry-evaluation-session-message", <<"a", "1">>, <<"X">>),
      Url("create-evaluation", <<"a", "1">>, <<"f", "2">>) }

\* The page's code calls window.fetch.
PageFetch(url) ==
    /\ WrappedFetch(url, isApiBridgeRequest, "page")
    /\ UNCHANGED <<connVars, execVars, outVars, inVars, filterVars>>

\* The delivery's fetch settles: a response that is ok, a response that is
\* not (then throws) or a rejection; .then and .catch only log.
DeliverySettles(i, ok) ==
    /\ i \in 1 .. Len(deliveries)
    /\ deliveries[i].outcome = "pending"
    /\ deliveries' = [deliveries EXCEPT ![i].outcome = IF ok THEN "ok" ELSE "failed"]
    /\ UNCHANGED <<isCaptureModeActive, activations, observed, connVars, execVars, outVars, inVars, filterVars>>

\* ------------------------------------------------------------ the bridge

Commands == {"refresh", "reconnect", "activate_id_capture", "send_page_source", "ping"}

\* The Connection Supervisor's steps and the environment's.
Connection ==
    \/ OnOpen
    \/ ClosingHandshake
    \/ OnErrorThenClose
    \/ OnClose
    \/ TimerFires

\* A payload that passes the pre-flight checks, for frames with a command.
SomePayload ==
    [session_id |-> "s1", message_templates |-> Templates(<<TemplateUser>>), battle_target |-> ""]

\* Frames with a command: bare, or with a request_id and a payload as well.
CommandFrames ==
    {Message(Command(c), 0, NoPayloadField) : c \in Commands}
        \cup {Message(Command(c), r, PayloadField(SomePayload)) : c \in Commands, r \in RequestIds}

\* A bare refresh command.
RefreshFrame == Message(Command("refresh"), 0, NoPayloadField)

\* A bare activate_id_capture command.
ActivateFrame == Message(Command("activate_id_capture"), 0, NoPayloadField)

\* socket.onmessage for a request frame.
Requested(payloads) ==
    \E message \in RequestFrames(payloads) : OnRequest(message)

\* socket.onmessage for a frame without a command that is not a request frame.
Malformed(payloads) ==
    \E message \in RequestFrames(payloads) : OnMalformed(message)

\* Frames whose command is the empty string: bare, or with a request_id and
\* a payload as well.
EmptyCommandFrames ==
    {Message(Command(""), 0, NoPayloadField)}
        \cup {Message(Command(""), r, PayloadField(SomePayload)) : r \in RequestIds}

\* socket.onmessage for a frame whose command is the empty string.
EmptyCommanded ==
    \E message \in EmptyCommandFrames :
        \/ OnRequest(message)
        \/ OnMalformed(message)

\* socket.onmessage for refresh and reconnect.
Reloaded(frames) ==
    \E message \in frames : OnReloadCommand(message)

\* socket.onmessage for activate_id_capture.
Armed(frames) ==
    \E message \in frames : OnActivateCapture(message)

\* socket.onmessage for the commands that leave the bridge's own state alone.
Commanded(frames) ==
    \E message \in frames :
        \/ OnSendPageSource(message)
        \/ OnOtherCommand(message)

\* The steps of an activation up to its stream.
Fetched ==
    \E r \in RequestIds :
        \/ FetchRejects(r)
        \/ \E ok \in BOOLEAN, hasBody \in BOOLEAN : FetchResolves(r, ok, hasBody)
        \/ \E resolved \in BOOLEAN : ErrorTextSettles(r, resolved)

\* A turn of an activation's read loop for a chunk.
Streamed(chunks) ==
    \E r \in RequestIds, chunk \in chunks : ReadChunk(r, chunk)

\* The last turn of an activation's read loop.
StreamEnded ==
    \E r \in RequestIds :
        \/ ReadDone(r)
        \/ ReadRejects(r)

\* The page's calls and the deliveries of what they let the interceptor capture.
Captured ==
    \/ \E url \in PageUrls : PageFetch(url)
    \/ \E i \in 1 .. MaxActivations, ok \in BOOLEAN : DeliverySettles(i, ok)

Next ==
    \/ Connection
    \/ Requested(Payloads)
    \/ Malformed(Payloads)
    \/ EmptyCommanded
    \/ Reloaded(CommandFrames)
    \/ Armed(CommandFrames)
    \/ Commanded(CommandFrames)
    \/ Fetched
    \/ Streamed(StreamChunks)
    \/ StreamEnded
    \/ Captured

Spec == Init /\ [][Next]_vars

\* The relay alone: the connection, the request frames, the reload and the
\* activations.  The steps left out write the capture's variables and the
\* histories of the dispatcher and the interceptor only, and no step of the
\* relay reads those: its own call of window.fetch is made with the flag set
\* and to a URL the interceptor's pattern does not match.
RelayNext ==
    \/ Connection
    \/ Requested(Payloads)
    \/ Reloaded({RefreshFrame})
    \/ Fetched
    \/ Streamed(StreamChunks)
    \/ StreamEnded

RelaySpec == Init /\ [][RelayNext]_vars

\* A payload that fails the first pre-flight check.
EmptySessionPayload ==
    [session_id |-> "", message_templates |-> Templates(<<TemplateUser>>), battle_target |-> "a"]

\* An activation that streams and ends, or fails before it streams: the ways
\* the origination flag is set and reset.
Answered ==
    \E r \in RequestIds :
        \/ FetchRejects(r)
        \/ FetchResolves(r, TRUE, TRUE)
        \/ ReadDone(r)

\* The capture beside the relay: every step that writes the capture mode or
\* the deliveries, and the steps that set and reset the origination flag.
\* The other outcomes of an activation write the flag as these do, and the
\* read loop's turns for a chunk write the histories of the relay only.
CaptureNext ==
    \/ Connection
    \/ Requested({SomePayload})
    \/ Reloaded({RefreshFrame})
    \/ Armed({ActivateFrame})
    \/ Answered
    \/ Captured

CaptureSpec == Init /\ [][CaptureNext]_vars

\* The supervisor under the scheduling the browser guarantees: a pending timer
\* fires, and a connection attempt that is not refused completes.
SupervisorNext ==
    \/ Connection
    \/ Reloaded(CommandFrames)
    \/ Armed(CommandFrames)
    \/ Commanded(CommandFrames)

SupervisorSpec ==
    /\ Init
    /\ [][SupervisorNext]_vars
    /\ WF_vars(TimerFires)
    /\ WF_vars(OnOpen)

\* The dispatcher: every frame socket.onmessage can be handed, beside the
\* connection and an activation that fails.
DispatchNext ==
    \/ Connection
    \/ Requested({SomePayload, EmptySessionPayload})
    \/ Malformed({SomePayload, EmptySessionPayload})
    \/ EmptyCommanded
    \/ Reloaded(CommandFrames)
    \/ Armed(CommandFrames)
    \/ Commanded(CommandFrames)
    \/ \E r \in RequestIds : FetchRejects(r)

DispatchSpec == Init /\ [][DispatchNext]_vars

\* ------------------------------------------- the demultiplexer on its own

\* 'a0:"x"\nb0:"y"\nbd:{"z":1}\n'
ExampleChunk ==
    <<"a", "0", ":", "\"", "x", "\"", NL,
      "b", "0", ":", "\"", "y", "\"", NL,
      "b", "d", ":", "{", "\"", "z", "\"", ":", "1", "}", NL>>

Targets == {"a", "b"}

FilterInit ==
    /\ BridgeInit
    /\ fChunk \in {<<>>, ExampleChunk}
    /\ fTarget \in Targets
    /\ fOut = filterStreamByTarget(fChunk, fTarget)
    /\ fSplit = 0
    /\ fHead = filterStreamByTarget(<<>>, fTarget)
    /\ fTail = filterStreamByTarget(fChunk, fTarget)

\* A chunk one character longer is filtered; when it is read in two parts, the
\* second part is the longer one.
FilterLonger(c) ==
    /\ Len(fChunk) < MaxChunkLen
    /\ fChunk' = Append(fChunk, c)
    /\ fOut' = filterStreamByTarget(fChunk', fTarget)
    /\ fTail' = filterStreamByTarget(SubSeq(fChunk', fSplit + 1, Len(fChunk')), fTarget)
    /\ UNCHANGED <<fTarget, fSplit, fHead, connVars, execVars, outVars, capVars, inVars>>

\* The same chunk is filtered for the other target.
FilterOther(t) ==
    /\ t # fTarget
    /\ fTarget' = t
    /\ fOut' = filterStreamByTarget(fChunk, t)
    /\ fHead' = filterStreamByTarget(SubSeq(fChunk, 1, fSplit), t)
    /\ fTail' = filterStreamByTarget(SubSeq(fChunk, fSplit + 1, Len(fChunk)), t)
    /\ UNCHANGED <<fChunk, fSplit, connVars, execVars, outVars, capVars, inVars>>

\* The same text arrives in two reads, the first of k characters: each part is
\* filtered on its own, as the read loop does.
FilterSplit(k) ==
    /\ k <= Len(fChunk)
    /\ k # fSplit
    /\ fSplit' = k
    /\ fHead' = filterStreamByTarget(SubSeq(fChunk, 1, k), fTarget)
    /\ fTail' = filterStreamByTarget(SubSeq(fChunk, k + 1, Len(fChunk)), fTarget)
    /\ UNCHANGED <<fChunk, fTarget, fOut, connVars, execVars, outVars, capVars, inVars>>

FilterNext ==
    \/ \E c \in ChunkAlphabet : FilterLonger(c)
    \/ \E t \in Targets : FilterOther(t)
    \/ \E k \in 0 .. Len(ExampleChunk) : FilterSplit(k)

FilterSpec == FilterInit /\ [][FilterNext]_vars

\* ------------------------------------------------------------- C5 and C6

\* The newline-delimited records of a chunk from index i on; the text after
\* the last newline, when there is some, is a record too.
RECURSIVE Lines(_, _)
Lines(chunk, i) ==
    IF i > Len(chunk)
    THEN <<>>
    ELSE LET e == RestOfLine(chunk, i)
         IN  <<SubSeq(chunk, i, e)>> \o Lines(chunk, e + 2)

\* A record whose leading characters are the tag t, then 0 or d, then a colon.
Tagged(line, t) ==
    /\ Len(line) >= 3
    /\ line[1] = t
    /\ line[2] \in {"0", "d"}
    /\ line[3] = ":"

TaggedRecords(chunk, t) == SelectSeq(Lines(chunk, 1), LAMBDA line : Tagged(line, t))

\* C5: the demultiplexer returns exactly the records of the chunk that begin
\* with t0: or td:, whole and in order, joined by newlines with a trailing
\* newline, and null when no record begins with the tag.
FilterReturnsTaggedRecords ==
    fOut = IF Len(TaggedRecords(fChunk, fTarget)) = 0
           THEN Null
           ELSE Text(Join(TaggedRecords(fChunk, fTarget)) \o <<NL>>)

\* The example of C5 taken alone: it does come out as the spec says.
FilterExampleHolds ==
    (fChunk = ExampleChunk /\ fTarget = "b") =>
        fOut = Text(SubSeq(ExampleChunk, 8, Len(ExampleChunk)))

\* C6: on a chunk whose records are all b-tagged, target a yields null and
\* target b does not; filtering again gives the same result, and filtering a
\* result again returns it unchanged.
FilterIsolatesParticipants ==
    /\ (Len(fChunk) > 0 /\ \A i \in 1 .. Len(Lines(fChunk, 1)) : Tagged(Lines(fChunk, 1)[i], "b")) =>
          (fOut.null <=> fTarget = "a")
    /\ ~fOut.null => filterStreamByTarget(fOut.text, fTarget) = fOut

\* The second half of C6 taken alone.
FilterIsIdempotent ==
    ~fOut.null => filterStreamByTarget(fOut.text, fTarget) = fOut

\* ---------------------------------------------------------- C1 to C4

Received(r) == requests[r].pc # "none"

\* A payload whose session_id is empty, or whose message_templates is missing
\* or empty.
FailsValidation(payload) ==
    \/ payload.session_id = ""
    \/ payload.message_templates.missing
    \/ payload.message_templates.list = <<>>

\* The activations whose payload is valid, or is not.
Valid(r) == Received(r) /\ ~FailsValidation(requests[r].payload)

Invalid(r) == Received(r) /\ FailsValidation(requests[r].payload)

IsTerminal(data) == data.kind \in {"done", "error"}

Count(seq, Test(_)) == Cardinality({i \in 1 .. Len(seq) : Test(seq[i])})

IsDone(data) == data.kind = "done"

IsError(data) == data.kind = "error"

\* C1: an activation whose session_id and message_templates are not empty
\* emits at most one terminal frame, [DONE] or an error and never both, nothing
\* after it, and has emitted exactly one when it has ended.
OneTerminalFrame ==
    \A r \in RequestIds :
        Valid(r) =>
            /\ Count(emitted[r], IsTerminal) <= 1
            /\ Count(emitted[r], IsDone) <= 1
            /\ \A i \in 1 .. Len(emitted[r]) : IsTerminal(emitted[r][i]) => i = Len(emitted[r])
            /\ requests[r].pc = "done" => Count(emitted[r], IsTerminal) = 1

\* Two activations have ended, one with [DONE] after a relayed chunk and one
\* with an error after a relayed chunk.
OneTerminalFrameCase ==
    \E r, q \in RequestIds :
        /\ Valid(r) /\ Valid(q)
        /\ requests[r].pc = "done" /\ requests[q].pc = "done"
        /\ Len(emitted[r]) >= 2 /\ emitted[r][Len(emitted[r])] = Done
        /\ Len(emitted[q]) >= 2 /\ IsError(emitted[q][Len(emitted[q])])

\* C2: an activation whose session_id is empty or whose message_templates is
\* missing or empty has emitted one error frame and then one [DONE], has
\* issued no network call, has generated no identifier and has ended; the
\* step that starts it hands both frames to the socket and leaves the
\* origination flag as it was.
PreflightCleanTerminated ==
    /\ [](\A r \in RequestIds :
            Invalid(r) =>
                /\ Len(emitted[r]) = 2 /\ IsError(emitted[r][1]) /\ emitted[r][2] = Done
                /\ requests[r].fetches = 0
                /\ requests[r].uuids = 0
                /\ requests[r].pc = "done")
    /\ [][\A r \in RequestIds :
            (~Received(r) /\ Invalid(r)') =>
                /\ isApiBridgeRequest' = isApiBridgeRequest
                /\ wire'[r] = emitted'[r]]_vars

\* An activation with both fields invalid has ended while the origination flag
\* is set by another one, which is in flight.
PreflightCleanTerminatedCase ==
    \E r, q \in RequestIds :
        /\ Invalid(r)
        /\ requests[r].payload.session_id = ""
        /\ Len(requests[r].payload.message_templates.list) = 0
        /\ isApiBridgeRequest
        /\ q \in InFlight

\* C3: an activation that passed the pre-flight checks and has emitted an
\* error frame has emitted one and no [DONE], whatever it relayed before, and
\* emits nothing afterwards; one that awaits the body of a failed response
\* emits nothing but an error frame.
MidStreamErrorOnly ==
    /\ [](\A r \in RequestIds :
            (Valid(r) /\ Count(emitted[r], IsError) > 0) =>
                /\ Count(emitted[r], IsError) = 1
                /\ Count(emitted[r], IsDone) = 0
                /\ requests[r].pc = "done")
    /\ [][\A r \in RequestIds :
            /\ (Valid(r) /\ Count(emitted[r], IsError) > 0) => emitted'[r] = emitted[r]
            /\ (requests[r].pc \in {"fetching", "errorText"} /\ emitted'[r] # emitted[r]) =>
                  /\ Len(emitted'[r]) = Len(emitted[r]) + 1
                  /\ IsError(emitted'[r][Len(emitted'[r])])
                  /\ requests'[r].pc = "done"]_vars

\* A stream read has failed after two relayed chunks, and the response of
\* another activation was not ok.
MidStreamErrorOnlyCase ==
    \E r, q \in RequestIds :
        /\ Valid(r) /\ Len(emitted[r]) = 3 /\ emitted[r][3] = ErrorData("read failed")
        /\ Valid(q) /\ emitted[q] = <<ErrorData("bad response")>>

\* a is b with some of its elements left out.
RECURSIVE IsSubsequence(_, _)
IsSubsequence(a, b) ==
    IF Len(a) = 0 THEN TRUE
    ELSE IF Len(b) = 0 THEN FALSE
    ELSE IF Head(a) = Head(b) THEN IsSubsequence(Tail(a), Tail(b))
    ELSE IsSubsequence(a, Tail(b))

\* The filtered chunks of the chunks an activation has read, in that order.
RECURSIVE Relayed(_, _)
Relayed(payload, chunks) ==
    IF Len(chunks) = 0
    THEN <<>>
    ELSE ChunkFrames(payload, Head(chunks)) \o Relayed(payload, Tail(chunks))

\* C4: the frames emitted with a request_id are the filtered chunks its own
\* activation has read, in the order of the reads, followed by its terminal
\* frame once it has ended; what the socket was handed with that request_id
\* is made of these frames, in that order.
FramesCorrelated ==
    \A r \in RequestIds :
        /\ Valid(r) =>
              LET relayed == Relayed(requests[r].payload, requests[r].chunks)
              IN  /\ Len(emitted[r]) >= Len(relayed)
                  /\ SubSeq(emitted[r], 1, Len(relayed)) = relayed
                  /\ Len(emitted[r]) = Len(relayed) + (IF requests[r].pc = "done" THEN 1 ELSE 0)
                  /\ requests[r].pc = "done" => IsTerminal(emitted[r][Len(emitted[r])])
        /\ IsSubsequence(wire[r], emitted[r])
        /\ ~Received(r) => emitted[r] = <<>>

\* Two activations read their streams at the same time; each has relayed
\* chunks, and what the socket was handed differs between them.
FramesCorrelatedCase ==
    \E r, q \in RequestIds :
        /\ requests[r].pc = "reading" /\ requests[q].pc = "reading"
        /\ Len(wire[r]) = 2 /\ wire[r][1] # wire[r][2]
        /\ Len(wire[q]) >= 1
        /\ wire[q] # wire[r]
        /\ Len(requests[q].chunks) = 2

\* ---------------------------------------------------------- C8 and C9

\* What a step appends to the frames emitted with request id r.
NewlyEmitted(r) == SubSeq(emitted'[r], Len(emitted[r]) + 1, Len(emitted'[r]))

\* C8: in every step the socket is handed exactly the frames sendToServer is
\* called with in that step, and only when it is OPEN; when it is not, they
\* are dropped, so that nothing handed over earlier is ever sent later.  The
\* step leaves the connection as it is, and an activation that reads its
\* stream can take its next turn whatever the socket's state.
SendNeverBuffers ==
    /\ [][\A r \in RequestIds :
            /\ Len(emitted'[r]) >= Len(emitted[r])
            /\ wire'[r] = IF readyState = "OPEN" THEN wire[r] \o NewlyEmitted(r) ELSE wire[r]
            /\ NewlyEmitted(r) # <<>> => UNCHANGED connVars]_vars
    /\ [](\A r \in RequestIds :
            requests[r].pc = "reading" => ENABLED ReadDone(r) /\ ENABLED ReadRejects(r))

\* A chunk was dropped while the socket was not open; the socket is open again
\* (a new one), the activation has relayed a later chunk through it, and the
\* dropped chunk has not been sent.
SendNeverBuffersCase ==
    \E r \in RequestIds :
        /\ readyState = "OPEN"
        /\ requests[r].socketGone
        /\ Len(emitted[r]) = 2
        /\ wire[r] = <<emitted[r][2]>>
        /\ emitted[r][1] # emitted[r][2]

\* C9: once the connection a request arrived on is lost, no frame with its
\* request_id is handed to a socket any more, the reconnected one included.
NoOutputAfterDisconnect ==
    [][\A r \in RequestIds : requests[r].socketGone => wire'[r] = wire[r]]_vars

\* What does hold after a disconnect: nothing is sent until a socket is open
\* again.
NoOutputWhileDisconnected ==
    [][\A r \in RequestIds : readyState # "OPEN" => wire'[r] = wire[r]]_vars

\* ---------------------------------------------------------- C7 and C10

\* A connection attempt is refused.
ConnectRefused == readyState = "CONNECTING" /\ OnErrorThenClose

\* C7: whenever the connection is closed, connect() is called again; and when
\* from some point on no attempt is refused, a closed connection is followed
\* by an open one.
ReconnectLiveness ==
    /\ (readyState = "CLOSED") ~> (readyState = "CONNECTING")
    /\ (<>[][~ConnectRefused]_vars) => ((readyState = "CLOSED") ~> (readyState = "OPEN"))

\* The capture mode, which only a frame on an open socket switches on and a
\* reload switches off, is on while the socket is connecting: the connection
\* was open, was lost, and connect() has been called again.
ReconnectLivenessCase == isCaptureModeActive /\ readyState = "CONNECTING"

\* The retry calls of the page that the pattern matches.
MatchingUrls == {url \in PageUrls : UrlMatches(url)}

\* C10: a delivery is started only by a matching call made while the capture
\* mode is on and the origination flag is clear; such a call switches the mode
\* off and starts one delivery, of the first identifier of its URL.  The mode
\* is switched on by activate_id_capture only, so there are never more
\* deliveries than such commands, and a delivery that settles, failed or not,
\* starts no other and leaves the mode alone.
CaptureIsOneShot ==
    /\ [](/\ Len(deliveries) <= activations
          /\ isCaptureModeActive => Len(deliveries) < activations)
    /\ [][/\ Len(deliveries') >= Len(deliveries)
          /\ Len(deliveries') > Len(deliveries) =>
                /\ isCaptureModeActive /\ ~isCaptureModeActive'
                /\ ~isApiBridgeRequest
                /\ Len(deliveries') = Len(deliveries) + 1
                /\ \E url \in MatchingUrls :
                      deliveries'[Len(deliveries')] = [sessionId |-> url.first, outcome |-> "pending"]
          /\ (~isCaptureModeActive /\ isCaptureModeActive') => activations' = activations + 1
          /\ (\E url \in MatchingUrls : PageFetch(url) /\ isCaptureModeActive /\ ~isApiBridgeRequest) =>
                Len(deliveries') = Len(deliveries) + 1 /\ ~isCaptureModeActive'
          /\ (\E i \in 1 .. Len(deliveries) :
                deliveries[i].outcome = "pending" /\ deliveries'[i].outcome \in {"ok", "failed"}) =>
                    /\ isCaptureModeActive' = isCaptureModeActive
                    /\ Len(deliveries') = Len(deliveries)]_vars

\* The first delivery has failed and the mode stayed off; a second
\* activate_id_capture has switched it on again, and a second delivery has
\* been started.
CaptureIsOneShotCase ==
    /\ activations = 2
    /\ Len(deliveries) = 2
    /\ deliveries[1].outcome = "failed"
    /\ deliveries[2].outcome = "pending"
    /\ ~isCaptureModeActive

\* --------------------------------------------------------- C11 and C12

\* A step in which window.fetch handles a call: the history tells, but for a
\* call that is the same as the one before; that one is then the page's, the
\* call of sendPageSource or the call of an activation.
Observes ==
    \/ observed' # observed
    \/ /\ observed # <<>>
       /\ \/ PageFetch(observed[1].url)
          \/ handled' # <<>> /\ OnSendPageSource(handled'[1])
          \/ handled' # <<>> /\ OnRequest(handled'[1]) /\ requests'[handled'[1].request_id].fetches = 1

\* C11: a call the interceptor handles while the origination flag is set
\* leaves the capture mode as it is and starts no delivery, whatever its URL
\* and the capture mode; only the call itself reaches originalFetch.
FlaggedCallNeverCaptured ==
    [][(Observes /\ observed'[1].flag) =>
          /\ isCaptureModeActive' = isCaptureModeActive
          /\ deliveries' = deliveries
          /\ observed'[1].forwarded = <<observed'[1].url>>]_vars

\* The page has made a matching retry call while the capture mode was on and
\* the origination flag was set; the mode is still on and nothing has been
\* delivered.
FlaggedCallNeverCapturedCase ==
    /\ observed # <<>>
    /\ observed[1].caller = "page"
    /\ observed[1].flag /\ observed[1].armed
    /\ UrlMatches(observed[1].url)
    /\ isCaptureModeActive
    /\ deliveries = <<>>
    /\ activations = 1

\* How often x occurs in seq.
Occurrences(seq, x) == Cardinality({i \in 1 .. Len(seq) : seq[i] = x})

\* C12: every call of the wrapper hands its own argument to originalFetch
\* exactly once and returns what originalFetch returned for it, whatever the
\* URL, the capture mode and the origination flag; what else reaches
\* originalFetch is the one call to the id updater's endpoint of a capture,
\* and the step starts as many deliveries.
InterceptorIsTransparent ==
    /\ [](observed # <<>> =>
            LET c == observed[1]
            IN  /\ Occurrences(c.forwarded, c.url) = 1
                /\ c.returned = originalFetch(c.url)
                /\ \A i \in 1 .. Len(c.forwarded) : c.forwarded[i] \in {c.url, UpdateEndpoint}
                /\ Occurrences(c.forwarded, UpdateEndpoint) =
                      (IF UrlMatches(c.url) /\ ~c.flag /\ c.armed THEN 1 ELSE 0))
    /\ [][Observes =>
            Len(deliveries') = Len(deliveries) + Occurrences(observed'[1].forwarded, UpdateEndpoint)]_vars

\* The last call was the page's and was captured: the delivery and the call
\* itself have reached originalFetch, in this order.
InterceptorIsTransparentCase ==
    /\ observed # <<>>
    /\ observed[1].caller = "page"
    /\ observed[1].forwarded = <<UpdateEndpoint, observed[1].url>>
    /\ ~isCaptureModeActive
    /\ Len(deliveries) = 2

\* --------------------------------------------------------- C13 and C14

\* A step in which socket.onmessage handles a frame: the history tells, but
\* for a frame that is the same as the one before.
Handles ==
    \/ handled' # handled
    \/ /\ handled # <<>>
       /\ \/ OnRequest(handled[1])
          \/ OnMalformed(handled[1])
          \/ OnReloadCommand(handled[1])
          \/ OnActivateCapture(handled[1])
          \/ OnSendPageSource(handled[1])
          \/ OnOtherCommand(handled[1])

\* A frame without a command key that lacks request_id or payload.
MalformedFrame(message) ==
    /\ message.command.missing
    /\ message.request_id = 0 \/ message.payload.missing

\* C13: the step that handles a frame without a command that lacks request_id
\* or payload emits no frame, starts no activation, makes no call of
\* window.fetch, and leaves the connection, the capture mode and the
\* origination flag as they are.
MalformedIsDropped ==
    [][(Handles /\ MalformedFrame(handled'[1])) =>
          UNCHANGED <<connVars, execVars, outVars, capVars>>]_vars

\* A frame with a request_id and no payload has been handled while a request
\* was in flight and the capture mode was on.
MalformedIsDroppedCase ==
    /\ handled # <<>>
    /\ MalformedFrame(handled[1])
    /\ handled[1].request_id # 0
    /\ readyState = "OPEN"
    /\ InFlight # {}
    /\ isApiBridgeRequest
    /\ isCaptureModeActive

\* What the step that handles `message` does when the frame is treated as a
\* control frame: no frame is emitted, no activation is started and no
\* evaluation call is made; activate_id_capture switches the capture mode on
\* and does nothing else, refresh and reconnect leave the bridge as the script
\* leaves it when it has run, and a command that is none of the four known
\* ones changes nothing.
HandledAsControl(message) ==
    /\ UNCHANGED outVars
    /\ \A r \in RequestIds :
          /\ requests'[r].fetches = requests[r].fetches
          /\ requests[r].pc = "none" => requests'[r].pc = "none"
    /\ observed' # observed => observed'[1].url.path # "post-to-evaluation"
    /\ message.command.value = "activate_id_capture" =>
          /\ isCaptureModeActive'
          /\ UNCHANGED <<connVars, execVars, outVars, deliveries, observed>>
    /\ message.command.value \in {"refresh", "reconnect"} =>
          /\ ~isCaptureModeActive'
          /\ ~isApiBridgeRequest'
          /\ InFlight' = {}
          /\ readyState' = "CONNECTING" /\ timers' = 0
    /\ message.command.value \notin
            {"refresh", "reconnect", "activate_id_capture", "send_page_source"} =>
          UNCHANGED <<connVars, execVars, outVars, capVars>>

\* C14: a frame that has a command key is a control frame, whatever else it
\* carries.
CommandKeyDiscriminates ==
    [][(Handles /\ ~handled'[1].command.missing) => HandledAsControl(handled'[1])]_vars

\* What does hold: a frame whose command is not the empty string is a control
\* frame, whatever else it carries.
CommandValueDiscriminates ==
    [][(Handles /\ IsCommand(handled'[1])) => HandledAsControl(handled'[1])]_vars

\* A refresh that carried a request_id and a payload has been handled while a
\* request was in flight and after the capture mode was switched on: the
\* request of the frame was never started, the one in flight is gone with the
\* page, the mode is off and the new page's socket is connecting.
CommandValueDiscriminatesCase ==
    /\ handled # <<>>
    /\ handled[1].command.value = "refresh"
    /\ handled[1].request_id # 0
    /\ ~handled[1].payload.missing
    /\ requests[handled[1].request_id].pc = "none"
    /\ \E r \in RequestIds : requests[r].pc = "unloaded"
    /\ activations > 0
    /\ ~isCaptureModeActive
    /\ ~isApiBridgeRequest
    /\ readyState = "CONNECTING"

\* ---------------------------------------------------------------- C15

\* The identifiers of a request body.
BodyIdentifiers(body) ==
    {body.userMessageId, body.modelAMessageId, body.modelBMessageId}
        \cup {body.messages[i].id : i \in 1 .. Len(body.messages)}

\* C15: an activation with n message templates that passed the pre-flight
\* checks has generated n + 2 identifiers.
IdentifiersPerMessagePlusTwo ==
    \A r \in RequestIds :
        Valid(r) =>
            requests[r].uuids = Len(requests[r].payload.message_templates.list) + 2

\* What does hold: it has generated n + 3 identifiers, one per outbound
\* message, the userMessageId and the two participant-slot identifiers, all
\* of them in its request body and no two the same.
IdentifiersPerMessagePlusThree ==
    \A r \in RequestIds :
        Valid(r) =>
            LET n == Len(requests[r].payload.message_templates.list)
            IN  /\ requests[r].uuids = n + 3
                /\ Len(requests[r].body.messages) = n
                /\ Cardinality(BodyIdentifiers(requests[r].body)) = requests[r].uuids

\* An activation with two message templates has generated five identifiers.
IdentifiersPerMessagePlusThreeCase ==
    \E r \in RequestIds :
        /\ Valid(r)
        /\ Len(requests[r].payload.message_templates.list) = 2
        /\ requests[r].uuids = 5
        /\ requests[r].fetches = 1

\* --------------------------------------------------------- C16 and C17

\* C16: whenever an activation is between its call of fetch and the end of
\* its stream or its failure, the origination flag is set.
FlagHeldWhileInFlight == InFlight # {} => isApiBridgeRequest

\* C17: whenever no activation is between its call of fetch and the end of
\* its stream or its failure, the origination flag is clear.
FlagReleasedWhenIdle == InFlight = {} => ~isApiBridgeRequest

\* An activation has failed its pre-flight checks and another has ended with
\* the error of a response body that could not be read; none is in flight.
FlagReleasedWhenIdleCase ==
    \E r, q \in RequestIds :
        /\ Invalid(r)
        /\ Valid(q)
        /\ requests[q].pc = "done"
        /\ emitted[q] = <<ErrorData("text failed")>>
        /\ InFlight = {}
        /\ ~isApiBridgeRequest

\* ---------------------------------------------------------------- C18

\* C18: the flag a call of window.fetch is handled with is set exactly when
\* the Request Executor made the call; and a matching call of the page made
\* while the capture mode is on is captured, whatever the activations do.
FlagTellsBridgeFromPage ==
    observed # <<>> =>
        LET c == observed[1]
        IN  /\ c.flag <=> c.caller = "executor"
            /\ (c.caller = "page" /\ UrlMatches(c.url) /\ c.armed) =>
                  c.forwarded = <<UpdateEndpoint, c.url>>

\* What does hold: a call of the Request Executor is handled with the flag
\* set, and a call of the page made while no activation is in flight is
\* handled with the flag clear.
FlagTellsBridgeFromPageWhenIdle ==
    [][Observes =>
          /\ observed'[1].caller = "executor" => observed'[1].flag
          /\ (observed'[1].caller = "page" /\ InFlight = {}) => ~observed'[1].flag]_vars

\* ---------------------------------------------------------------- C19

\* The index of the first character of the record that holds index i.
RECURSIVE RecordStart(_, _)
RecordStart(chunk, i) ==
    IF i <= 1 \/ chunk[i - 1] = NL THEN i ELSE RecordStart(chunk, i - 1)

\* What the demultiplexer is to return for these records.
Returned(records) ==
    IF Len(records) = 0 THEN Null ELSE Text(Join(records) \o <<NL>>)

\* A record is split between the two reads: its first part ends the first
\* read and its second part starts the second.
RecordIsSplit ==
    /\ 0 < fSplit /\ fSplit < Len(fChunk)
    /\ fChunk[fSplit] # NL
    /\ fChunk[fSplit + 1] # NL

\* The record that is split.
SplitRecord ==
    SubSeq(fChunk, RecordStart(fChunk, fSplit), RestOfLine(fChunk, fSplit))

\* C19: when a record of the target is split between two reads, what is
\* returned for each read is made of the target's records that the read
\* holds whole, and of nothing of the split record.
SplitRecordIsNotMatched ==
    (RecordIsSplit /\ Tagged(SplitRecord, fTarget)) =>
        /\ fHead = Returned(TaggedRecords(SubSeq(fChunk, 1, RecordStart(fChunk, fSplit) - 1), fTarget))
        /\ fTail = Returned(TaggedRecords(SubSeq(fChunk, RestOfLine(fChunk, fSplit) + 2, Len(fChunk)),
                                          fTarget))

\* What the code does with the first part of a split record of the target
\* that holds the tag: it is the last of the records returned for the first
\* read, as if the record ended there.
SplitRecordIsTruncated ==
    (RecordIsSplit /\ Tagged(SplitRecord, fTarget) /\ fSplit >= RecordStart(fChunk, fSplit) + 2) =>
        /\ ~fHead.null
        /\ LET lines == Lines(fHead.text, 1)
           IN  lines[Len(lines)] = SubSeq(fChunk, RecordStart(fChunk, fSplit), fSplit)

\* ---------------------------------------------------------------- C20

\* The socket is the page's connection or is about to be.
SocketLive == readyState \in {"CONNECTING", "OPEN"}

\* The supervisor's steps of connecting and of losing the connection.  Every
\* close of a socket schedules one connect(): the timers grow by one in
\* exactly the steps that close it.  connect() is called by a timer, which is
\* then the only one and finds the socket closed, or by the script of a
\* reloaded page.
OneConnectPerClose ==
    /\ (readyState # "CLOSED" /\ readyState' = "CLOSED") => timers' = timers + 1
    /\ timers' > timers => (readyState # "CLOSED" /\ readyState' = "CLOSED" /\ timers' = timers + 1)
    /\ timers' < timers => (readyState = "CLOSED" /\ readyState' = "CONNECTING" /\ timers' = 0)
    /\ (readyState # "CONNECTING" /\ readyState' = "CONNECTING") =>
          \/ readyState = "CLOSED" /\ timers = 1 /\ timers' = 0
          \/ Reloaded(CommandFrames)

\* C20: in every state there is either a socket that is CONNECTING or OPEN,
\* or one pending reconnect timer, and not both; every close schedules one
\* connect().
SingleConnection ==
    /\ [](timers \in {0, 1} /\ (SocketLive <=> timers = 0))
    /\ [][OneConnectPerClose]_vars

\* What does hold: in every state there is either a socket that is not
\* closed (CONNECTING, OPEN or CLOSING), or one pending reconnect timer, and
\* not both; every close schedules one connect().
SingleConnectionOrClosing ==
    /\ [](timers \in {0, 1} /\ (readyState # "CLOSED" <=> timers = 0))
    /\ [][OneConnectPerClose]_vars

\* The connection was open and was lost while the capture mode was on (which
\* only a frame on an open socket switches on): the socket is closed and one
\* timer is pending.
SingleConnectionOrClosingCase ==
    /\ readyState = "CLOSED"
    /\ timers = 1
    /\ isCaptureModeActive
    /\ handled # <<>>

====
